---- MODULE Spec2Model ----
(***************************************************************************)
(* Call routing of ywsd (src/ywsd/routing_tree.py): the discovery          *)
(* traversal (RoutingTreeDiscoveryVisitor), the routing compiler           *)
(* (YateRoutingGenerationVisitor) and the orchestrator (RoutingTree).      *)
(*                                                                         *)
(* Objects.  Extension.load_extension, load_forwarding_extension and       *)
(* populate_callgroup_ranks (ywsd.objects) build a fresh object on every   *)
(* load, so the discovered structure is a tree of objects; it is kept as   *)
(* a nested record.  Python's None is the empty sequence << >>, a loaded   *)
(* object x is <<x>>.  A dict is a function, {} is << >>.                  *)
(***************************************************************************)
EXTENDS Integers, Sequences, FiniteSets, TLC

VARIABLES
    dir,                \* the directory (database): id -> row of the extension
    yates_dict,         \* yate id -> [hostname, voip_listener]
    local_yate,         \* id of the yate this computation runs on
    ringback_exists,    \* os.path.isfile(ringback_path)
    target_extension,   \* RoutingTree.target_extension (id of the row; the number is dir[id].extension)
    excluded_targets,   \* RoutingTreeDiscoveryVisitor._excluded_targets
    max_depth,          \* RoutingTreeDiscoveryVisitor._max_depth
    target,             \* RoutingTree.target: << >> or <<the root Extension object>>
    failed,             \* RoutingTreeDiscoveryVisitor._failed
    pruned,             \* RoutingTreeDiscoveryVisitor._pruned
    discovery_log,      \* RoutingTreeDiscoveryVisitor._discovery_log
    x_eventphone_id,    \* YateRoutingGenerationVisitor._x_eventphone_id
    routing_result,     \* RoutingTree.routing_result: << >> or <<IntermediateRoutingResult>>
    new_routing_cache_content, \* RoutingTree.new_routing_cache_content
    raised,             \* "" or the name of the exception that ended the operation
    pc                  \* position of the caller in the sequence of operations

vars == <<dir, yates_dict, local_yate, ringback_exists, target_extension,
          excluded_targets, max_depth, target, failed, pruned, discovery_log,
          x_eventphone_id, routing_result, new_routing_cache_content, raised, pc>>

(***************************************************************************)
(* Bounds of the model.                                                    *)
(***************************************************************************)
NumExt == 4          \* extensions in the directory
NumConfigured == 3   \* extensions that the graph families give forwards and members
MaxDepthInput == 2   \* depth bounds tried besides the default

\* uuid.uuid4().hex: the session ids a run may draw
SessionIds == {"5f1e", "a0c3"}

\* max_depth=10, the default of RoutingTreeDiscoveryVisitor.__init__
DefaultMaxDepth == 10

Ids == 1..NumExt
ConfIds == 1..NumConfigured

(***************************************************************************)
(* ywsd.objects: Extension, CallgroupRank, CallgroupRank.Member            *)
(***************************************************************************)
None == << >>

Types == {"SIMPLE", "GROUP", "MULTIRING", "EXTERNAL"}
ForwardingModes == {"DISABLED", "ENABLED", "ON_BUSY"}
RankModes == {"DROP", "NEXT", "PARALLEL"}
MemberTypes == {"DEFAULT", "AUXILIARY"}

\* the extension number of the row with this id, a string ("2001", ...)
ExtensionNumber(id) == ToString(2000 + id)

\* Extension.load_extension / load_extension_by_id: a fresh object of the row
LoadExtension(id) ==
    [ id                      |-> id,
      extension               |-> dir[id].extension,
      type                    |-> dir[id].type,
      yate_id                 |-> dir[id].yate_id,
      ringback                |-> dir[id].ringback,
      forwarding_mode         |-> dir[id].forwarding_mode,
      forwarding_delay        |-> dir[id].forwarding_delay,
      forwarding_extension_id |-> dir[id].forwarding_extension_id,
      forwarding_extension    |-> None,
      callgroup_ranks         |-> << >>,
      ranks_populated         |-> FALSE ]

\* Extension.load_forwarding_extension
LoadForwardingExtension(node) ==
    [node EXCEPT !.forwarding_extension = <<LoadExtension(node.forwarding_extension_id)>>]

\* Extension.populate_callgroup_ranks: the ranks of the row, each member with a
\* fresh object of its extension
PopulateCallgroupRanks(node) ==
    [node EXCEPT
        !.ranks_populated = TRUE,
        !.callgroup_ranks =
            [r \in DOMAIN dir[node.id].ranks |->
                [ mode    |-> dir[node.id].ranks[r].mode,
                  delay   |-> dir[node.id].ranks[r].delay,
                  members |-> [m \in DOMAIN dir[node.id].ranks[r].members |->
                      [ extension |-> LoadExtension(dir[node.id].ranks[r].members[m].extension_id),
                        active    |-> dir[node.id].ranks[r].members[m].active,
                        type      |-> dir[node.id].ranks[r].members[m].type ]] ]] ]

\* Extension.immediate_forward
ImmediateForward(node) ==
    node.forwarding_mode = "ENABLED" /\ node.forwarding_delay = 0

\* Extension.has_active_group_members
HasActiveGroupMembers(node) ==
    \E r \in DOMAIN node.callgroup_ranks :
        \E m \in DOMAIN node.callgroup_ranks[r].members :
            node.callgroup_ranks[r].members[m].active

\* CallgroupRank.Member.Type.is_special_calltype
IsSpecialCalltype(t) == t /= "DEFAULT"

(***************************************************************************)
(* RoutingTreeDiscoveryVisitor                                             *)
(***************************************************************************)
\* x in s, for a list s (lines 126 and 139)
InSeqTruthy(x, s) == s /= << >>
InSeq(x, s) == \E i \in DOMAIN s : s[i] = x

\* RoutingTreeDiscoveryVisitor._log
Log(st, msg) == [st EXCEPT !.log = Append(@, msg)]

\* the test of line 109
DepthLimitExceeded(depth, limit) == depth > limit
DepthLimitReached(depth, limit) == depth >= limit

\* line 146: member.active = False
DeactivateMember(member) == [member EXCEPT !.active = FALSE]

\* line 132: node.forwarding_mode = DISABLED
KeepForward(node) == node
DisableForward(node) == [node EXCEPT !.forwarding_mode = "DISABLED"]

RECURSIVE Visit(_, _, _, _, _)
RECURSIVE VisitMembers(_, _, _, _, _, _, _)
RECURSIVE VisitRanks(_, _, _, _, _, _)

\* lines 134-146: the members of one rank from index j on; returns the rank's
\* members as left by the visit and the visitor's state
VisitMembers(members, j, rank_no, depth, path_extensions_local, limit, st) ==
    IF j > Len(members) THEN [members |-> members, st |-> st]
    ELSE LET member == members[j] IN
         IF ~member.active
         THEN VisitMembers(members, j + 1, rank_no, depth, path_extensions_local, limit, st)
         ELSE IF ~InSeq(member.extension.extension, path_extensions_local)
         THEN LET v == Visit(member.extension, depth + 1, path_extensions_local, limit, st) IN
              VisitMembers([members EXCEPT ![j].extension = v.node], j + 1, rank_no,
                           depth, path_extensions_local, limit, v.st)
         ELSE VisitMembers([members EXCEPT ![j] = DeactivateMember(member)], j + 1, rank_no,
                           depth, path_extensions_local, limit,
                           Log([st EXCEPT !.pruned = TRUE],
                               [msg |-> "member", ext |-> member.extension.extension,
                                rank |-> rank_no, state |-> path_extensions_local]))

\* lines 133-146: the ranks from index i on
VisitRanks(ranks, i, depth, path_extensions_local, limit, st) ==
    IF i > Len(ranks) THEN [ranks |-> ranks, st |-> st]
    ELSE LET v == VisitMembers(ranks[i].members, 1, i, depth, path_extensions_local, limit, st) IN
         VisitRanks([ranks EXCEPT ![i].members = v.members], i + 1, depth,
                    path_extensions_local, limit, v.st)

\* RoutingTreeDiscoveryVisitor._visit; returns the node as the visit leaves it
\* and the visitor's state [failed, pruned, log]
Visit(node, depth, path_extensions, limit, st) ==
    IF DepthLimitReached(depth, limit)
    THEN [node |-> node,
          st |-> [Log(st, [msg |-> "depth", ext |-> node.extension]) EXCEPT !.failed = TRUE]]
    ELSE
    LET path_extensions_local == Append(path_extensions, node.extension)
        n1 == IF node.type /= "EXTERNAL" /\ node.forwarding_mode /= "DISABLED"
              THEN LoadForwardingExtension(node) ELSE node
        n2 == IF n1.type \in {"GROUP", "MULTIRING"}
                 /\ (n1.forwarding_mode /= "ENABLED" \/ n1.forwarding_delay > 0)
              THEN PopulateCallgroupRanks(n1) ELSE n1
        f  == IF n2.forwarding_extension = None
              THEN [node |-> n2, st |-> st]
              ELSE LET fwd == n2.forwarding_extension[1] IN
                   IF ~InSeq(fwd.extension, path_extensions_local)
                   THEN LET v == Visit(fwd, depth + 1, path_extensions_local, limit, st) IN
                        [node |-> [n2 EXCEPT !.forwarding_extension = <<v.node>>], st |-> v.st]
                   ELSE [node |-> DisableForward(n2),
                         st |-> Log([st EXCEPT !.pruned = TRUE],
                                    [msg |-> "forward", ext |-> fwd.extension,
                                     state |-> path_extensions_local])]
        r  == VisitRanks(f.node.callgroup_ranks, 1, depth, path_extensions_local, limit, f.st)
    IN [node |-> [f.node EXCEPT !.callgroup_ranks = r.ranks], st |-> r.st]

\* the list(set(...)) of line 106: the excluded extensions in some order
RECURSIVE SetToSeq(_)
SetToSeq(S) == IF S = {} THEN << >>
               ELSE LET x == CHOOSE y \in S : TRUE IN <<x>> \o SetToSeq(S \ {x})

\* RoutingTreeDiscoveryVisitor.discover_tree on a freshly constructed visitor
DiscoverTreeResult(root_node, excluded, limit) ==
    Visit(root_node, 0, SetToSeq(excluded), limit,
          [failed |-> FALSE, pruned |-> FALSE, log |-> << >>])

(***************************************************************************)
(* CallTarget, IntermediateRoutingResult                                   *)
(***************************************************************************)
\* CallTarget.__init__
CallTarget(target_string, parameters) ==
    [target |-> target_string, parameters |-> parameters]

\* IntermediateRoutingResult.__init__; fork_targets is None or <<the list>>
IntermediateRoutingResult(call_target, fork_targets) ==
    IF fork_targets /= None
    THEN [type |-> "FORK",   target |-> call_target, fork_targets |-> fork_targets[1]]
    ELSE [type |-> "SIMPLE", target |-> call_target, fork_targets |-> << >>]

\* IntermediateRoutingResult.is_simple
IsSimple(result) == result.type = "SIMPLE"

(***************************************************************************)
(* YateRoutingGenerationVisitor                                            *)
(***************************************************************************)
\* "-".join(map(str, path))
RECURSIVE JoinPath(_)
JoinPath(path) ==
    IF path = << >> THEN ""
    ELSE IF Len(path) = 1 THEN ToString(path[1])
    ELSE ToString(path[1]) \o "-" \o JoinPath(Tail(path))

\* YateRoutingGenerationVisitor.generate_node_route_string
GenerateNodeRouteString(sid, path) == "stage1-" \o sid \o "-" \o JoinPath(path)

\* YateRoutingGenerationVisitor.generate_deferred_routestring
GenerateDeferredRoutestring(sid, path) == "lateroute/" \o GenerateNodeRouteString(sid, path)

\* YateRoutingGenerationVisitor._make_calltarget
MakeCalltarget(sid, target_string, parameters) ==
    CallTarget(target_string, ("x_eventphone_id" :> sid) @@ parameters)

\* YateRoutingGenerationVisitor._make_intermediate_result
MakeIntermediateResult(call_target, fork_targets) ==
    IntermediateRoutingResult(call_target, fork_targets)

\* YateRoutingGenerationVisitor._cache_intermediate_result
CacheIfSimple(cache, result) ==
    IF IsSimple(result) THEN (result.target.target :> result) @@ cache ELSE cache
CacheIntermediateResult(cache, result) ==
    IF ~IsSimple(result) THEN (result.target.target :> result) @@ cache ELSE cache

\* YateRoutingGenerationVisitor.generate_simple_routing_target
GenerateSimpleRoutingTarget(sid, node) ==
    IF node.yate_id = local_yate
    THEN MakeCalltarget(sid, "lateroute/stage2-" \o node.extension, << >>)
    ELSE MakeCalltarget(sid,
             "sip/sip:" \o node.extension \o "@" \o yates_dict[node.yate_id].hostname,
             ("oconnection_id" :> yates_dict[node.yate_id].voip_listener))

\* YateRoutingGenerationVisitor.node_has_simple_routing.  Line 282 reads the
\* forwarding target of an immediate forward; _visit_for_route_calculation
\* returns at line 220 before it asks for such a node.
RECURSIVE NodeHasSimpleRouting(_)
NodeHasSimpleRouting(node) ==
    IF node.type = "EXTERNAL" THEN TRUE
    ELSE IF ImmediateForward(node)
    THEN node.forwarding_extension /= None
         /\ NodeHasSimpleRouting(node.forwarding_extension[1])
    ELSE IF node.type = "SIMPLE" THEN node.forwarding_mode = "DISABLED"
    ELSE IF node.type = "MULTIRING"
    THEN IF HasActiveGroupMembers(node) THEN FALSE
         ELSE node.forwarding_mode = "DISABLED"
    ELSE FALSE

\* lines 235-242: the separator in front of a rank that is not the first
Separator(rank) ==
    IF rank.mode = "DROP" THEN "|drop=" \o ToString(rank.delay)
    ELSE IF rank.mode = "NEXT" THEN "|next=" \o ToString(rank.delay)
    ELSE "|"

\* lines 235-242: accumulated_delay after the separator of this rank
Accumulate(accumulated_delay, rank) ==
    IF rank.mode \in {"DROP", "NEXT"} THEN accumulated_delay + rank.delay
    ELSE accumulated_delay

\* line 243: all later ranks will not be called, the forward takes effect now
ForwardTakesEffect(accumulated_delay, node) == accumulated_delay >= node.forwarding_delay

\* line 264: a forward with a delay is issued
IssuesDelayedForward(node, accumulated_delay) == node.forwarding_mode = "ENABLED"

\* an exception leaves the compiler: no result
Raise(name, cache) == [raised |-> name, result |-> None, cache |-> cache]

RECURSIVE VisitForRouteCalculation(_, _, _, _)
RECURSIVE RouteMembers(_, _, _, _, _, _)
RECURSIVE RouteRanks(_, _, _, _, _, _, _)

\* lines 248-257: the members of a rank from index j on
RouteMembers(members, j, local_path, fork_targets, cache, sid) ==
    IF j > Len(members)
    THEN [raised |-> "", fork_targets |-> fork_targets, cache |-> cache]
    ELSE LET member == members[j] IN
         IF ~member.active
         THEN RouteMembers(members, j + 1, local_path, fork_targets, cache, sid)
         ELSE LET member_route == VisitForRouteCalculation(<<member.extension>>, local_path, cache, sid) IN
              IF member_route.raised /= ""
              THEN [raised |-> member_route.raised, fork_targets |-> fork_targets,
                    cache |-> member_route.cache]
              ELSE IF IsSpecialCalltype(member.type)
              \* line 254: a CallTarget has no attribute params
              THEN [raised |-> "AttributeError", fork_targets |-> fork_targets,
                    cache |-> member_route.cache]
              ELSE RouteMembers(members, j + 1, local_path,
                                Append(fork_targets, member_route.result[1].target),
                                CacheIntermediateResult(member_route.cache, member_route.result[1]),
                                sid)

\* lines 232-257: the ranks from index i on
RouteRanks(node, i, local_path, fork_targets, accumulated_delay, cache, sid) ==
    IF i > Len(node.callgroup_ranks)
    THEN [raised |-> "", fork_targets |-> fork_targets,
          accumulated_delay |-> accumulated_delay, cache |-> cache]
    ELSE
    LET rank  == node.callgroup_ranks[i]
        sep   == fork_targets /= << >>
        acc   == IF sep THEN Accumulate(accumulated_delay, rank) ELSE accumulated_delay
    IN  IF sep /\ ForwardTakesEffect(acc, node)
        THEN [raised |-> "", fork_targets |-> fork_targets,
              accumulated_delay |-> acc, cache |-> cache]
        ELSE LET ft == IF sep THEN Append(fork_targets, CallTarget(Separator(rank), << >>))
                       ELSE fork_targets
                 m  == RouteMembers(rank.members, 1, local_path, ft, cache, sid)
             IN  IF m.raised /= ""
                 THEN [raised |-> m.raised, fork_targets |-> m.fork_targets,
                       accumulated_delay |-> acc, cache |-> m.cache]
                 ELSE RouteRanks(node, i + 1, local_path, m.fork_targets, acc, m.cache, sid)

\* YateRoutingGenerationVisitor._visit_for_route_calculation.  node is None
\* or <<an Extension>>; returns [raised, result, cache] with the lateroute
\* cache as the call leaves it.
VisitForRouteCalculation(node_ref, path, cache, sid) ==
    IF node_ref = None
    \* line 216: None has no attribute id
    THEN Raise("AttributeError", cache)
    ELSE
    LET node == node_ref[1]
        local_path == Append(path, node.id)
    IN
    IF ImmediateForward(node)
    THEN VisitForRouteCalculation(node.forwarding_extension, local_path, cache, sid)
    ELSE IF NodeHasSimpleRouting(node)
    THEN [raised |-> "",
          result |-> <<MakeIntermediateResult(GenerateSimpleRoutingTarget(sid, node), None)>>,
          cache |-> cache]
    ELSE
    LET r   == RouteRanks(node, 1, local_path, << >>, 0, cache, sid)
        ft1 == IF node.type = "MULTIRING"
               THEN <<GenerateSimpleRoutingTarget(sid, node)>> \o r.fork_targets
               ELSE r.fork_targets
    IN
    IF r.raised /= "" THEN Raise(r.raised, r.cache)
    ELSE IF IssuesDelayedForward(node, r.accumulated_delay)
    THEN LET forwarding_route ==
                 VisitForRouteCalculation(node.forwarding_extension, local_path, r.cache, sid)
             fwd_delay == node.forwarding_delay - r.accumulated_delay
         IN  IF forwarding_route.raised /= ""
             THEN Raise(forwarding_route.raised, forwarding_route.cache)
             ELSE [raised |-> "",
                   result |-> <<MakeIntermediateResult(
                       MakeCalltarget(sid, GenerateDeferredRoutestring(sid, local_path), << >>),
                       <<ft1 \o <<CallTarget("|drop=" \o ToString(fwd_delay), << >>),
                                  forwarding_route.result[1].target>>>>)>>,
                   cache |-> CacheIntermediateResult(forwarding_route.cache,
                                                     forwarding_route.result[1])]
    ELSE [raised |-> "",
          result |-> <<MakeIntermediateResult(
              MakeCalltarget(sid, GenerateDeferredRoutestring(sid, local_path), << >>),
              <<ft1>>)>>,
          cache |-> r.cache]

\* YateRoutingGenerationVisitor.calculate_routing on a fresh visitor
CalculateRoutingResult(root, sid) == VisitForRouteCalculation(root, << >>, << >>, sid)

(***************************************************************************)
(* RoutingTree                                                             *)
(***************************************************************************)
\* settings.RINGBACK_TOP_DIRECTORY
RingbackTopDirectory == "/var/ringback"

\* os.path.join of a directory and a relative file name
PathJoin(directory, name) == directory \o "/" \o name

\* RoutingTree._make_ringback_target
MakeRingbackTarget(path) ==
    CallTarget("wave/play/" \o path,
               ("fork.calltype" :> "persistent") @@ ("fork.autoring" :> "true")
                   @@ ("fork.automessage" :> "call.progress"))

\* RoutingTree._provide_ringback: the routing result it leaves
ProvideRingbackResult(root, result, is_file) ==
    IF root.ringback /= None /\ is_file
    THEN LET ringback_path == PathJoin(RingbackTopDirectory, root.ringback[1]) IN
         IF IsSimple(result)
         THEN IntermediateRoutingResult(
                  CallTarget("fork", result.target.parameters),
                  <<(<<MakeRingbackTarget(ringback_path), result.target>>)>>)
         ELSE [result EXCEPT !.fork_targets = <<MakeRingbackTarget(ringback_path)>> \o @]
    ELSE result

\* RoutingTree._calculate_eventphone_parameters
CalculateEventphoneParameters == << >>

\* dict.update
DictUpdate(d, other) == other @@ d

\* lines 64-65: iterating a dict yields its keys, and a str has no update
PopulateCacheRaises(cache) == DOMAIN cache /= {}

(***************************************************************************)
(* The operations                                                          *)
(***************************************************************************)
Static == <<dir, yates_dict, local_yate, ringback_exists, target_extension,
            excluded_targets, max_depth>>

\* RoutingTree.discover_tree: load the target, run a discovery visitor over it
DiscoverTree ==
    /\ pc = "start"
    /\ LET d == DiscoverTreeResult(LoadExtension(target_extension), excluded_targets, max_depth) IN
       /\ target' = <<d.node>>
       /\ failed' = d.st.failed
       /\ pruned' = d.st.pruned
       /\ discovery_log' = d.st.log
    /\ pc' = "discovered"
    /\ UNCHANGED <<Static, x_eventphone_id, routing_result, new_routing_cache_content, raised>>

\* RoutingTree._calculate_main_routing (first statement of calculate_routing)
CalculateMainRouting ==
    /\ pc = "discovered"
    /\ \E sid \in SessionIds :
         LET c == CalculateRoutingResult(target, sid) IN
         /\ x_eventphone_id' = sid
         /\ raised' = c.raised
         /\ IF c.raised = ""
            THEN /\ routing_result' = c.result
                 /\ new_routing_cache_content' = c.cache
                 /\ pc' = "routed"
            ELSE /\ UNCHANGED <<routing_result, new_routing_cache_content>>
                 /\ pc' = "done"
    /\ UNCHANGED <<Static, target, failed, pruned, discovery_log>>

\* RoutingTree._provide_ringback (second statement of calculate_routing)
ProvideRingback ==
    /\ pc = "routed"
    /\ routing_result' = <<ProvideRingbackResult(target[1], routing_result[1], ringback_exists)>>
    /\ pc' = "ringback"
    /\ UNCHANGED <<Static, target, failed, pruned, discovery_log, x_eventphone_id,
                   new_routing_cache_content, raised>>

\* RoutingTree._populate_eventphone_parameters and the return of calculate_routing
PopulateEventphoneParameters ==
    /\ pc = "ringback"
    /\ routing_result' = <<[routing_result[1] EXCEPT
                              !.target.parameters = DictUpdate(@, CalculateEventphoneParameters)]>>
    /\ raised' = IF PopulateCacheRaises(new_routing_cache_content) THEN "AttributeError" ELSE ""
    /\ pc' = "done"
    /\ UNCHANGED <<Static, target, failed, pruned, discovery_log, x_eventphone_id,
                   new_routing_cache_content>>

Next == DiscoverTree \/ CalculateMainRouting \/ ProvideRingback \/ PopulateEventphoneParameters

(***************************************************************************)
(* The directories and inputs a run starts from.  Three families:          *)
(*   forwards : extensions 1..NumConfigured are phones or external lines   *)
(*              with any forwarding among themselves;                      *)
(*   groups   : the target is a group with a forward of its own, its       *)
(*              members are phones with forwards or groups again;          *)
(*   forks    : the target is a GROUP or MULTIRING of two ranks with timed *)
(*              separators over plain phones, with and without ringback.   *)
(***************************************************************************)
Forwarding(mode, delay, id) == [mode |-> mode, delay |-> delay, id |-> id]
NoForward == Forwarding("DISABLED", 0, 0)

Member(id, active, type) == [extension_id |-> id, active |-> active, type |-> type]
Rank(mode, delay, members) == [mode |-> mode, delay |-> delay, members |-> members]

\* the yate an extension is registered on
YateOf(id) == IF id % 2 = 1 THEN 1 ELSE 2

Row(id, cfg) ==
    [ extension               |-> ExtensionNumber(id),
      type                    |-> cfg.type,
      yate_id                 |-> YateOf(id),
      ringback                |-> cfg.ringback,
      forwarding_mode         |-> cfg.f.mode,
      forwarding_delay        |-> cfg.f.delay,
      forwarding_extension_id |-> cfg.f.id,
      ranks                   |-> cfg.ranks ]

Cfg(type, f, ranks) == [type |-> type, f |-> f, ranks |-> ranks, ringback |-> None]
Plain == Cfg("SIMPLE", NoForward, << >>)

Forwards(ids) ==
    { Forwarding("ENABLED", 0, t) : t \in ids } \cup { Forwarding("ENABLED", 5, t) : t \in ids }
        \cup { Forwarding("ON_BUSY", 5, t) : t \in ids }

\* forwards: a phone with any forward, an external line with an immediate one
PhoneCfgs ==
    { Cfg("SIMPLE", f, << >>) : f \in {NoForward} \cup Forwards(ConfIds) }
        \cup { Cfg("EXTERNAL", f, << >>) :
                 f \in {NoForward} \cup { Forwarding("ENABLED", 0, t) : t \in ConfIds } }

\* groups: the target's ranks, one rank of one or two members
GroupRanks ==
    { <<Rank("PARALLEL", 0, <<Member(a, act, "DEFAULT")>>)>> : a \in ConfIds, act \in BOOLEAN }
        \cup { <<Rank("PARALLEL", 0, <<Member(a, TRUE, "DEFAULT"), Member(b, TRUE, "DEFAULT")>>)>> :
                 a \in ConfIds, b \in ConfIds }
GroupTargetCfgs ==
    { Cfg("GROUP", f, r) :
        f \in {NoForward} \cup { Forwarding("ENABLED", d, t) : d \in {0, 5}, t \in ConfIds },
        r \in GroupRanks }
GroupMemberCfgs ==
    { Cfg("SIMPLE", f, << >>) :
        f \in {NoForward} \cup { Forwarding("ENABLED", 0, t) : t \in ConfIds }
                \cup { Forwarding("ENABLED", 5, t) : t \in Ids } }
        \cup { Cfg("GROUP", NoForward, <<Rank("PARALLEL", 0, <<Member(a, TRUE, "DEFAULT")>>)>>) :
                 a \in Ids }

\* forks: the target's two ranks over the phones 2, 3 and 4
ForkRanks ==
    { <<Rank(m1, 5, <<Member(2, a1, "DEFAULT")>>), Rank(m2, d2, <<Member(3, TRUE, t3)>> \o tl)>> :
        m1 \in RankModes, a1 \in BOOLEAN, m2 \in RankModes, d2 \in {5, 10}, t3 \in MemberTypes,
        tl \in {<< >>, <<Member(4, TRUE, "DEFAULT")>>} }
ForkTargetCfgs ==
    { [Cfg(t, f, r) EXCEPT !.ringback = rb] :
        t \in {"GROUP", "MULTIRING"},
        f \in { NoForward, Forwarding("DISABLED", 20, 0), Forwarding("ON_BUSY", 5, 4) }
                \cup { Forwarding("ENABLED", d, 4) : d \in {5, 10, 15} },
        r \in ForkRanks,
        rb \in {None, <<"ring.slin">>} }

Yates == <<[hostname |-> "yate1.example", voip_listener |-> "trunk1"],
           [hostname |-> "yate2.example", voip_listener |-> "trunk2"]>>

DepthBounds == (1..MaxDepthInput) \cup {DefaultMaxDepth}

InitForwards ==
    /\ \E c \in [ConfIds -> PhoneCfgs] :
         dir = [i \in Ids |-> Row(i, IF i \in ConfIds THEN c[i] ELSE Plain)]
    /\ excluded_targets \in {{}, {ExtensionNumber(1)}, {ExtensionNumber(2)}}
    /\ max_depth \in DepthBounds
    /\ local_yate = 1
    /\ ringback_exists = FALSE

InitGroups ==
    /\ \E g \in GroupTargetCfgs : \E c \in [ConfIds \ {1} -> GroupMemberCfgs] :
         dir = [i \in Ids |-> Row(i, IF i = 1 THEN g ELSE IF i \in ConfIds THEN c[i] ELSE Plain)]
    /\ excluded_targets \in {{}, {ExtensionNumber(2)}}
    /\ max_depth \in {MaxDepthInput, DefaultMaxDepth}
    /\ local_yate = 1
    /\ ringback_exists = FALSE

InitForks ==
    /\ \E g \in ForkTargetCfgs :
         dir = [i \in Ids |-> Row(i, IF i = 1 THEN g ELSE Plain)]
    /\ excluded_targets = {}
    /\ max_depth = DefaultMaxDepth
    /\ local_yate \in DOMAIN Yates
    /\ ringback_exists \in BOOLEAN

Init ==
    /\ InitForwards \/ InitGroups \/ InitForks
    /\ yates_dict = Yates
    /\ target_extension = 1
    /\ target = None
    /\ failed = FALSE
    /\ pruned = FALSE
    /\ discovery_log = << >>
    /\ x_eventphone_id = ""
    /\ routing_result = None
    /\ new_routing_cache_content = << >>
    /\ raised = ""
    /\ pc = "start"

Spec == Init /\ [][Next]_vars

(***************************************************************************)
(* Properties of the discovery                                             *)
(***************************************************************************)
Discovered == pc /= "start"
Root == target[1]

\* the positions <<rank, member>> of a list of ranks
MemberPositions(ranks) ==
    UNION { { <<r, m>> : m \in DOMAIN ranks[r].members } : r \in DOMAIN ranks }

\* the children the routing follows from a discovered node: the resolved
\* forwarding target unless forwarding is DISABLED, and the active members
FollowedChildren(node) ==
    (IF node.forwarding_extension /= None /\ node.forwarding_mode /= "DISABLED"
     THEN {node.forwarding_extension[1]} ELSE {})
    \cup { node.callgroup_ranks[p[1]].members[p[2]].extension :
             p \in { q \in MemberPositions(node.callgroup_ranks) :
                       node.callgroup_ranks[q[1]].members[q[2]].active } }

\* no path of followed edges below node meets an extension of seen or an
\* extension twice
RECURSIVE NoRevisit(_, _)
NoRevisit(node, seen) ==
    /\ node.extension \notin seen
    /\ \A c \in FollowedChildren(node) : NoRevisit(c, seen \cup {node.extension})

\* C1 (acyclicity): once discover_tree has returned, no path that starts at
\* the root and follows only resolved forwarding targets of extensions whose
\* forwarding mode is not DISABLED and memberships with active=true contains
\* the same extension twice.
C1_Acyclicity == Discovered => NoRevisit(Root, {})

\* a cycle of the directory itself (no excluded extension involved) was pruned
C1_Witness ==
    /\ pc = "discovered" /\ pruned /\ ~failed /\ excluded_targets = {}
    /\ \E i \in DOMAIN discovery_log : discovery_log[i].msg = "forward"
    /\ \E i \in DOMAIN discovery_log : discovery_log[i].msg = "member"

(***************************************************************************)
(* The graph of the directory, before any discovery: the forward of every  *)
(* extension whose forwarding is not DISABLED and its active memberships.  *)
(***************************************************************************)
Successors(id) ==
    (IF dir[id].forwarding_mode /= "DISABLED" THEN {dir[id].forwarding_extension_id} ELSE {})
    \cup { dir[id].ranks[p[1]].members[p[2]].extension_id :
             p \in { q \in MemberPositions(dir[id].ranks) :
                       dir[id].ranks[q[1]].members[q[2]].active } }

\* no path of the directory from id meets an id of seen or an id twice
RECURSIVE PathsAvoid(_, _)
PathsAvoid(id, seen) ==
    /\ id \notin seen
    /\ \A j \in Successors(id) : PathsAvoid(j, seen \cup {id})

ExcludedIds == { i \in Ids : dir[i].extension \in excluded_targets }

\* every flag of the discovered objects below node is the one of its row
RECURSIVE FlagsUnchanged(_)
FlagsUnchanged(node) ==
    /\ node.forwarding_mode = dir[node.id].forwarding_mode
    /\ node.forwarding_extension /= None => FlagsUnchanged(node.forwarding_extension[1])
    /\ \A p \in MemberPositions(node.callgroup_ranks) :
         /\ node.callgroup_ranks[p[1]].members[p[2]].active
              = dir[node.id].ranks[p[1]].members[p[2]].active
         /\ FlagsUnchanged(node.callgroup_ranks[p[1]].members[p[2]].extension)

\* how often the extension occurs among the visited objects below node
RECURSIVE Occurrences(_, _)
RECURSIVE SumOver(_, _)
SumOver(f, S) == IF S = {} THEN 0
                 ELSE LET x == CHOOSE y \in S : TRUE IN f[x] + SumOver(f, S \ {x})
Occurrences(node, ext) ==
    (IF node.extension = ext THEN 1 ELSE 0)
    + (IF node.forwarding_extension /= None /\ node.forwarding_mode /= "DISABLED"
       THEN Occurrences(node.forwarding_extension[1], ext) ELSE 0)
    + LET P == { q \in MemberPositions(node.callgroup_ranks) :
                   node.callgroup_ranks[q[1]].members[q[2]].active }
      IN  SumOver([p \in P |-> Occurrences(node.callgroup_ranks[p[1]].members[p[2]].extension, ext)], P)

\* C2 as stated: for every excluded start set, if no path from the root
\* revisits an extension, discovery leaves every member's active flag and
\* every forwarding mode as they were, and pruned is false.
C2_Original ==
    (Discovered /\ PathsAvoid(target_extension, {}))
        => (FlagsUnchanged(Root) /\ ~pruned)

\* C2 (amended): if no path from the root revisits an extension or reaches,
\* after the root, an extension of the excluded start set, discovery leaves
\* every member's active flag and every forwarding mode as they were, and
\* pruned is false.
C2_CycleFreeUnchanged ==
    (Discovered /\ PathsAvoid(target_extension, ExcludedIds \ {target_extension}))
        => (FlagsUnchanged(Root) /\ ~pruned)

\* a diamond below the root, with a caller excluded, discovered unchanged
C2_Witness ==
    /\ pc = "discovered"
    /\ excluded_targets /= {}
    /\ PathsAvoid(target_extension, ExcludedIds \ {target_extension})
    /\ \E i \in Ids : Occurrences(Root, dir[i].extension) >= 2
    /\ FlagsUnchanged(Root) /\ ~pruned

(***************************************************************************)
(* Depth bound                                                             *)
(***************************************************************************)
\* the edges of the directory that discovery resolves at a node (lines 117-122)
Resolved(id) ==
    (IF dir[id].type /= "EXTERNAL" /\ dir[id].forwarding_mode /= "DISABLED"
     THEN {dir[id].forwarding_extension_id} ELSE {})
    \cup (IF dir[id].type \in {"GROUP", "MULTIRING"}
             /\ ~(dir[id].forwarding_mode = "ENABLED" /\ dir[id].forwarding_delay = 0)
          THEN { dir[id].ranks[p[1]].members[p[2]].extension_id :
                   p \in { q \in MemberPositions(dir[id].ranks) :
                             dir[id].ranks[q[1]].members[q[2]].active } }
          ELSE {})

\* a chain of resolved edges from id, free of repetitions and of the ids of
\* seen, of at least hops more hops
RECURSIVE ChainOfLength(_, _, _)
ChainOfLength(id, seen, hops) ==
    \/ hops <= 0
    \/ \E j \in Resolved(id) \ (seen \cup {id}) : ChainOfLength(j, seen \cup {id}, hops - 1)

\* every visited object above the depth bound has its forward resolved and its
\* ranks populated, whatever happened on the branches visited before it
RECURSIVE FullyDiscovered(_, _)
FullyDiscovered(node, depth) ==
    depth < max_depth =>
        /\ (dir[node.id].type /= "EXTERNAL" /\ dir[node.id].forwarding_mode /= "DISABLED")
              => node.forwarding_extension /= None
        /\ (dir[node.id].type \in {"GROUP", "MULTIRING"}
              /\ ~(dir[node.id].forwarding_mode = "ENABLED" /\ dir[node.id].forwarding_delay = 0))
              => node.ranks_populated
        /\ \A c \in FollowedChildren(node) : FullyDiscovered(c, depth + 1)

\* C3 (depth bound): failed is true after discovery exactly when some
\* extension was reached at depth >= max_depth, that is when the directory
\* has a chain of max_depth hops from the root that discovery follows; so a
\* chain of max_depth hops or more ends with failed and one of max_depth-1
\* hops does not; and reaching the bound on one branch does not stop the
\* discovery of the other branches.
C3_DepthBound ==
    Discovered =>
        /\ failed <=> ChainOfLength(target_extension, ExcludedIds, max_depth)
        /\ failed <=> \E i \in DOMAIN discovery_log : discovery_log[i].msg = "depth"
        /\ FullyDiscovered(Root, 0)

\* the bound was reached on the first branch and a later branch was still
\* discovered (its cycle was pruned)
C3_Witness ==
    /\ pc = "discovered" /\ failed
    /\ Len(discovery_log) >= 2
    /\ discovery_log[1].msg = "depth"
    /\ discovery_log[Len(discovery_log)].msg = "member"
    /\ ChainOfLength(target_extension, ExcludedIds, max_depth)
    /\ ~ChainOfLength(target_extension, ExcludedIds, max_depth + 1)

(***************************************************************************)
(* Properties of the compiled routing                                      *)
(***************************************************************************)
\* _calculate_main_routing has returned a result
Routed == routing_result /= None
Result == routing_result[1]

\* calculate_routing has returned (routing_result, new_routing_cache_content)
Returned == pc = "done" /\ raised = ""

TargetStrings(call_targets) == [i \in DOMAIN call_targets |-> call_targets[i].target]

HasPrefix(str, prefix) ==
    Len(str) >= Len(prefix) /\ SubSeq(str, 1, Len(prefix)) = prefix

\* the root result and the cached results
AllResults == {Result} \cup { new_routing_cache_content[k] : k \in DOMAIN new_routing_cache_content }

\* the directory is the group of the example: forwarding DISABLED and the
\* ranks [DROP(delay=5, members=[A]), PARALLEL(members=[B, C])] over plain
\* phones A = 2, B = 3, C = 4
IsForkExample ==
    /\ dir[1].type = "GROUP"
    /\ dir[1].forwarding_mode = "DISABLED"
    /\ Len(dir[1].ranks) = 2
    /\ dir[1].ranks[1].mode = "DROP" /\ dir[1].ranks[1].delay = 5
    /\ dir[1].ranks[1].members = <<Member(2, TRUE, "DEFAULT")>>
    /\ dir[1].ranks[2].mode = "PARALLEL"
    /\ dir[1].ranks[2].members = <<Member(3, TRUE, "DEFAULT"), Member(4, TRUE, "DEFAULT")>>
    /\ \A i \in {2, 3, 4} : dir[i].type = "SIMPLE" /\ dir[i].forwarding_mode = "DISABLED"

\* C4 (fork ordering), the instance the claim names: a GROUP with forwarding
\* DISABLED and ranks [DROP(delay=5, members=[A]), PARALLEL(members=[B,C])]
\* compiles to the fork sequence exactly [A, "|drop=5", B, C].
C4_ForkOrdering ==
    (pc = "routed" /\ IsForkExample) =>
        /\ Result.type = "FORK"
        /\ TargetStrings(Result.fork_targets)
             = << GenerateSimpleRoutingTarget(x_eventphone_id, Root.callgroup_ranks[1].members[1].extension).target,
                  "|drop=5",
                  GenerateSimpleRoutingTarget(x_eventphone_id, Root.callgroup_ranks[2].members[1].extension).target,
                  GenerateSimpleRoutingTarget(x_eventphone_id, Root.callgroup_ranks[2].members[2].extension).target >>

\* the separator in front of the target of a delayed forward
PositiveDrops == { "|drop=" \o ToString(k) : k \in 1..20 }

\* C5 (delayed-forward remainder): when a non-simple node is compiled with
\* forwarding ENABLED, the drop value emitted in front of the forwarding
\* target is strictly positive.
C5_PositiveRemainder ==
    (pc = "routed" /\ ~failed /\ ~pruned /\ Root.forwarding_mode = "ENABLED" /\ ~ImmediateForward(Root)
        /\ Root.type /= "EXTERNAL")
    => /\ Len(Result.fork_targets) >= 2
       /\ Result.fork_targets[Len(Result.fork_targets) - 1].target \in PositiveDrops

\* no extension of the directory forwards on busy: forwarding is ENABLED or
\* DISABLED everywhere
NoBusyForward == \A i \in Ids : dir[i].forwarding_mode /= "ON_BUSY"

\* C6 (fork non-emptiness): when discovery finished with failed=false, every
\* FORK result that is returned or cached has a non-empty fork_targets
\* sequence and every SIMPLE result an empty one.
C6_ForkNonEmpty ==
    (pc = "routed" /\ ~failed /\ ~pruned /\ NoBusyForward) =>
        \A r \in AllResults :
            /\ r.type = "FORK" => r.fork_targets /= << >>
            /\ r.type = "SIMPLE" => r.fork_targets = << >>

\* the leaves of a result: its target when SIMPLE, its fork targets that are
\* no separator when FORK
Leaves(r) ==
    IF r.type = "SIMPLE" THEN {r.target}
    ELSE { r.fork_targets[i] : i \in { j \in DOMAIN r.fork_targets :
                                         ~HasPrefix(r.fork_targets[j].target, "|") } }

\* C7 (session tagging): in the final program returned by calculate_routing
\* every leaf target, the ringback leaf included, carries x_eventphone_id
\* with the one session id.
C7_SessionTagging ==
    (Returned /\ ~failed) =>
        \A r \in AllResults : \A leaf \in Leaves(r) :
            /\ "x_eventphone_id" \in DOMAIN leaf.parameters
            /\ leaf.parameters["x_eventphone_id"] = x_eventphone_id

\* C8 (parameter stamping): whatever the deferred cache holds,
\* _populate_eventphone_parameters does not raise and calculate_routing
\* returns the result and the cache.
C8_StampingReturns ==
    (pc = "done" /\ Routed /\ ~failed /\ ~pruned) => raised = ""

\* changed flags among the objects below node
RECURSIVE ChangedFlags(_)
ChangedFlags(node) ==
    (IF node.forwarding_mode /= dir[node.id].forwarding_mode THEN 1 ELSE 0)
    + (IF node.forwarding_extension /= None
       THEN ChangedFlags(node.forwarding_extension[1]) ELSE 0)
    + LET P == MemberPositions(node.callgroup_ranks) IN
      SumOver([p \in P |->
                 (IF node.callgroup_ranks[p[1]].members[p[2]].active
                       /= dir[node.id].ranks[p[1]].members[p[2]].active THEN 1 ELSE 0)
                 + ChangedFlags(node.callgroup_ranks[p[1]].members[p[2]].extension)], P)

PruneEntries == { i \in DOMAIN discovery_log : discovery_log[i].msg \in {"forward", "member"} }

\* the compiler reads the ranks of a group (line 232, line 291) that
\* discovery never populated
ReadsUnpopulatedRanks(node) ==
    /\ ~ImmediateForward(node)
    /\ node.type \in {"GROUP", "MULTIRING"}
    /\ ~node.ranks_populated

\* C9 (cycle recovery is never fatal): every pruned edge is one disabled flag
\* and one log entry, failed is set only by the depth bound, and on every
\* graph discovered with pruned=true and failed=false the compiler returns a
\* program without reading an unresolved forwarding target or an
\* unpopulated rank.
C9_CycleRecovery ==
    /\ Discovered =>
         /\ Cardinality(PruneEntries) = ChangedFlags(Root)
         /\ pruned <=> PruneEntries /= {}
         /\ failed <=> \E i \in DOMAIN discovery_log : discovery_log[i].msg = "depth"
    /\ (pc \in {"routed", "ringback", "done"} /\ pruned /\ ~failed) =>
         /\ Routed
         /\ ~ReadsUnpopulatedRanks(Root)

\* C10 (deferred-cache completeness): after the compiler has returned, every
\* target "lateroute/stage1-..." in the fork sequence of the root result or
\* of a cached result is a key of the cache, every cache entry is a FORK
\* stored under its own target string, and no SIMPLE result is cached.
C10_CacheComplete ==
    Routed =>
        /\ \A r \in AllResults : \A i \in DOMAIN r.fork_targets :
             HasPrefix(r.fork_targets[i].target, "lateroute/stage1-")
                => r.fork_targets[i].target \in DOMAIN new_routing_cache_content
        /\ \A k \in DOMAIN new_routing_cache_content :
             /\ new_routing_cache_content[k].type = "FORK"
             /\ new_routing_cache_content[k].target.target = k

\* a fork in a fork: two results cached, one referring to the other, and the
\* root referring to a cached one
C10_Witness ==
    /\ pc = "routed" /\ ~failed /\ ~pruned
    /\ Cardinality(DOMAIN new_routing_cache_content) >= 2
    /\ \E k \in DOMAIN new_routing_cache_content :
         \E i \in DOMAIN new_routing_cache_content[k].fork_targets :
             new_routing_cache_content[k].fork_targets[i].target \in DOMAIN new_routing_cache_content
    /\ \E i \in DOMAIN Result.fork_targets :
         Result.fork_targets[i].target \in DOMAIN new_routing_cache_content

====
